---- MODULE Spec2Model ----
(***************************************************************************)
(* NeoWS-Monitor: a Streamlit script (app.py) that fetches near-Earth      *)
(* object data (fetch.py), flattens it, shows summary statistics, filters  *)
(* and sorts the records and scores one selected record.                   *)
(*                                                                         *)
(* Streamlit re-executes app.py from top to bottom on every user           *)
(* interaction; only st.session_state and the widget values survive from   *)
(* one execution to the next.  One action of Spec is one such execution.   *)
(*                                                                         *)
(* Numbers.  Python/numpy floats are modelled as extended rationals        *)
(* [n, d] (d = 0 is IEEE +inf).  Lengths are counted in units of 0.05 km   *)
(* (diameters) and 100 000 km (miss distances) so that the program's       *)
(* constants 0.5 km and 1 000 000 km are the integers 10 and 10.  Dates    *)
(* are day numbers.  Names and approach dates are ranks in their string    *)
(* order (Python compares the strings; the model compares the ranks).      *)
(***************************************************************************)
EXTENDS Integers, Sequences, FiniteSets, TLC

VARIABLES
    environ,        \* os.environ: whether NASA_API_KEY is set
    session_state,  \* st.session_state: [searched, asteroid_data]
    widgets,        \* the sidebar and page widgets' current values
    out,            \* what the last execution of app.py put on the page
    input,          \* argument of the pipeline stage under test
    result          \* what that stage returned

vars == <<environ, session_state, widgets, out, input, result>>

None == "None"

\* ------------------------------------------------------------- bounds
MaxAvg == 12          \* largest avg_diameter_km scored (0.05 km units)
MaxMiss == 25         \* largest miss_distance_km scored (100 000 km units)
MaxDay == 12          \* the date inputs range over days 0..MaxDay
MaxObjects == 3       \* most objects in a normalized raw response
MaxSession == 2       \* most objects in a response fetched during a session
MaxRows == 3          \* most rows of a frame handed to sort_values
MaxKey == 2           \* the sorted rows' key values range over 1..MaxKey

\* ------------------------------------------------- program constants
HALF_KM == 10         \* 0.5 km, app.py:157
MILLION_KM == 10      \* 1000000 km, app.py:158
HIGH_ABOVE == 70      \* app.py:163
MEDIUM_ABOVE == 40    \* app.py:165
MAX_SPAN_DAYS == 7    \* app.py:28 and app.py:30

\* ------------------------------------------------------ float values
Rat(n, d) == [n |-> n, d |-> d]
Int2F(i) == Rat(i, 1)
Inf == Rat(1, 0)
NoValue == Rat(0, 0)
ZeroDivisionError == "ZeroDivisionError"
KeyError == "KeyError"

\* a < b on non-negative floats, +inf included
FLess(a, b) == a.n * b.d < b.n * a.d
FEq(a, b) == a.n * b.d = b.n * a.d
FAdd(a, b) == Rat(a.n * b.d + b.n * a.d, a.d * b.d)
FMul(a, b) == Rat(a.n * b.n, a.d * b.d)

\* Python's own float division: a zero divisor raises ZeroDivisionError.
truediv_python(a, b) ==
    IF b.n = 0 THEN [raised |-> ZeroDivisionError, value |-> NoValue]
    ELSE [raised |-> None, value |-> Rat(a.n * b.d, a.d * b.n)]

\* The division app.py performs on a field of a DataFrame row.  The field is
\* a numpy.float64, so a positive number over zero is +inf (numpy warns and
\* raises nothing).
truediv(a, b) ==
    IF b.n = 0
    THEN [raised |-> None, value |-> IF a.n = 0 THEN NoValue ELSE Inf]
    ELSE [raised |-> None, value |-> Rat(a.n * b.d, a.d * b.n)]

\* Python's min(a, b): b if b < a, else a.
py_min(a, b) == IF FLess(b, a) THEN b ELSE a

\* int(x) for a finite x >= 0
py_int(x) == x.n \div x.d

\* --------------------------------------------------- hazard scoring
context_mutant(hazard_level) ==
    IF ~FLess(hazard_level, Int2F(HIGH_ABOVE)) THEN "warning"
    ELSE IF ~FLess(hazard_level, Int2F(MEDIUM_ABOVE)) THEN "info"
    ELSE "success"

\* The Context branches: st.warning (high) / st.info (medium) /
\* st.success (low).
context(hazard_level) ==
    IF FLess(Int2F(HIGH_ABOVE), hazard_level) THEN "warning"
    ELSE IF FLess(Int2F(MEDIUM_ABOVE), hazard_level) THEN "info"
    ELSE "success"

size_factor_mutant(asteroid_details) ==
    truediv(Int2F(asteroid_details.avg_diameter_km), Int2F(HALF_KM)).value

\* min(avg_diameter_km / 0.5, 1)
size_factor(asteroid_details) ==
    py_min(truediv(Int2F(asteroid_details.avg_diameter_km), Int2F(HALF_KM)).value,
           Int2F(1))

\* hazard_level of the selected row: 0 unless is_hazardous, else
\* (size_factor * 0.7 + distance_factor * 0.3) * 100.  An exception raised
\* by the division ends the execution before the score is shown.
hazard_score(asteroid_details) ==
    IF ~asteroid_details.is_hazardous
    THEN [raised |-> None, hazard_level |-> Int2F(0)]
    ELSE LET sf == size_factor(asteroid_details)
             q  == truediv(Int2F(MILLION_KM),
                           Int2F(asteroid_details.miss_distance_km))
         IN  IF q.raised # None
             THEN [raised |-> q.raised, hazard_level |-> NoValue]
             ELSE LET df == py_min(q.value, Int2F(1))
                  IN  [raised |-> None,
                       hazard_level |->
                           FMul(FAdd(FMul(sf, Rat(7, 10)), FMul(df, Rat(3, 10))),
                                Int2F(100))]

\* The score part of the details section: st.progress(int(hazard_level))
\* and the Context message.
score_section(asteroid_details) ==
    LET s == hazard_score(asteroid_details)
    IN  IF s.raised # None
        THEN [raised |-> s.raised, hazard_level |-> NoValue, progress |-> 0,
              context |-> None]
        ELSE [raised |-> None, hazard_level |-> s.hazard_level,
              progress |-> py_int(s.hazard_level),
              context |-> context(s.hazard_level)]

\* =====================================================================
\* SpecScore: the hazard scorer applied to one row at a time.
\* =====================================================================
NotRun == [stage |-> "none"]

\* The variables of the session, for a stage that is run on its own.
Idle ==
    /\ environ = TRUE
    /\ session_state = [searched |-> FALSE, asteroid_data |-> None]
    /\ widgets = None
    /\ out = None

ScoredRows ==
    [is_hazardous : BOOLEAN, avg_diameter_km : 0..MaxAvg,
     miss_distance_km : 0..MaxMiss]

InitScore ==
    /\ Idle
    /\ input \in ScoredRows
    /\ result = NotRun

\* The details section computes the score of the selected row.
ScoreRow ==
    /\ result = NotRun
    /\ result' = [stage |-> "score", details |-> score_section(input)]
    /\ UNCHANGED <<environ, session_state, widgets, out, input>>

NextScore == ScoreRow

SpecScore == InitScore /\ [][NextScore]_vars

\* =====================================================================
\* Date range validation (app.py 26-30)
\* =====================================================================
validate_dates_mutant(start_date, end_date) ==
    LET date_diff == end_date - start_date
    IN  IF date_diff >= MAX_SPAN_DAYS
        THEN [warning |-> TRUE, end_date |-> start_date + MAX_SPAN_DAYS]
        ELSE [warning |-> FALSE, end_date |-> end_date]

\* date_diff = (end_date - start_date).days; above 7 the script warns and
\* replaces end_date by start_date + 7 days.
validate_dates(start_date, end_date) ==
    LET date_diff == end_date - start_date
    IN  IF date_diff > MAX_SPAN_DAYS
        THEN [warning |-> TRUE, end_date |-> start_date + MAX_SPAN_DAYS]
        ELSE [warning |-> FALSE, end_date |-> end_date]

DateInputs == [start_date : 0..MaxDay, end_date : 0..MaxDay]

InitClamp ==
    /\ Idle
    /\ input \in DateInputs
    /\ result = NotRun

\* The script validates the two date inputs.
ValidateDates ==
    /\ result = NotRun
    /\ result' = [stage |-> "dates",
                  window |-> validate_dates(input.start_date, input.end_date)]
    /\ UNCHANGED <<environ, session_state, widgets, out, input>>

NextClamp == ValidateDates

SpecClamp == InitClamp /\ [][NextClamp]_vars

\* =====================================================================
\* Normalization loop (app.py 48-67)
\* =====================================================================
\* A raw object is a record that may lack keys (a JSON dict).  The nested
\* paths estimated_diameter.kilometers.estimated_diameter_min/max,
\* miss_distance.kilometers and relative_velocity.kilometers_per_hour are
\* flattened to one key each.
AsteroidKeys ==
    {"id", "name", "estimated_diameter_min", "estimated_diameter_max",
     "is_potentially_hazardous_asteroid"}
ApproachKeys == {"close_approach_date", "miss_distance", "relative_velocity"}

Drop(dict, key) == [k \in DOMAIN dict \ {key} |-> dict[k]]

NoInfo == [id |-> 0]

asteroid_info_mutant(date, asteroid) ==
    LET n == Len(asteroid.close_approach_data)
        approach == asteroid.close_approach_data[n]
    IN  IF ~(AsteroidKeys \subseteq DOMAIN asteroid)
           \/ ~(ApproachKeys \subseteq DOMAIN approach)
        THEN [raised |-> KeyError, info |-> NoInfo]
        ELSE [raised |-> None,
              info |-> [id |-> asteroid.id,
                        name |-> asteroid.name,
                        date |-> date,
                        diameter_min_km |-> asteroid.estimated_diameter_min,
                        diameter_max_km |-> asteroid.estimated_diameter_max,
                        is_hazardous |-> asteroid.is_potentially_hazardous_asteroid,
                        close_approach_date |-> approach.close_approach_date,
                        miss_distance_km |-> approach.miss_distance,
                        relative_velocity_kph |-> approach.relative_velocity]]

\* The dict literal of lines 56-66, for an object whose close_approach_data
\* is not empty: every subscript of a missing key raises KeyError; the
\* approach fields come from close_approach_data[0].
asteroid_info(date, asteroid) ==
    LET approach == asteroid.close_approach_data[1]
    IN  IF ~(AsteroidKeys \subseteq DOMAIN asteroid)
           \/ ~(ApproachKeys \subseteq DOMAIN approach)
        THEN [raised |-> KeyError, info |-> NoInfo]
        ELSE [raised |-> None,
              info |-> [id |-> asteroid.id,
                        name |-> asteroid.name,
                        date |-> date,
                        diameter_min_km |-> asteroid.estimated_diameter_min,
                        diameter_max_km |-> asteroid.estimated_diameter_max,
                        is_hazardous |-> asteroid.is_potentially_hazardous_asteroid,
                        close_approach_date |-> approach.close_approach_date,
                        miss_distance_km |-> approach.miss_distance,
                        relative_velocity_kph |-> approach.relative_velocity]]

\* for asteroid in asteroids: ... (lines 52-67).  An exception leaves the
\* loop at once, with all_asteroids as it stands.
RECURSIVE for_asteroid(_, _, _)
for_asteroid(date, asteroids, all_asteroids) ==
    IF asteroids = <<>>
    THEN [raised |-> None, all_asteroids |-> all_asteroids]
    ELSE LET asteroid == Head(asteroids)
         IN  IF "close_approach_data" \notin DOMAIN asteroid
             THEN [raised |-> KeyError, all_asteroids |-> all_asteroids]
             ELSE IF asteroid.close_approach_data = <<>>
             THEN for_asteroid(date, Tail(asteroids), all_asteroids)
             ELSE LET made == asteroid_info(date, asteroid)
                  IN  IF made.raised # None
                      THEN [raised |-> made.raised,
                            all_asteroids |-> all_asteroids]
                      ELSE for_asteroid(date, Tail(asteroids),
                                        Append(all_asteroids, made.info))

\* for date, asteroids in neo_data.items(): ... (line 51).  neo_data is the
\* sequence of the dict's items in iteration order.
RECURSIVE for_date(_, _)
for_date(neo_data, all_asteroids) ==
    IF neo_data = <<>>
    THEN [raised |-> None, all_asteroids |-> all_asteroids]
    ELSE LET inner == for_asteroid(Head(neo_data).date,
                                   Head(neo_data).asteroids, all_asteroids)
         IN  IF inner.raised # None THEN inner
             ELSE for_date(Tail(neo_data), inner.all_asteroids)

\* all_asteroids = []; the two nested loops.
normalize(data) == for_date(data.near_earth_objects, <<>>)

\* ------------------------------------------------ raw responses
Approach(date, miss, velocity) ==
    [close_approach_date |-> date, miss_distance |-> miss,
     relative_velocity |-> velocity]

Asteroid(id, name, dmin, dmax, hazardous, approaches) ==
    [id |-> id, name |-> name, estimated_diameter_min |-> dmin,
     estimated_diameter_max |-> dmax,
     is_potentially_hazardous_asteroid |-> hazardous,
     close_approach_data |-> approaches]

NearApproach == Approach(1, 5, 4)
FarApproach == Approach(2, 25, 9)

Shapes ==
    {"none", "one", "two", "two_rev", "no_name", "no_cad", "no_miss",
     "none_no_name"}

\* The raw object of a shape, with its position as id.
Shaped(i, shape) ==
    LET base(approaches) == Asteroid(i, i, 2, 6, i % 2 = 1, approaches)
    IN  CASE shape = "none" -> base(<<>>)
          [] shape = "one" -> base(<<NearApproach>>)
          [] shape = "two" -> base(<<NearApproach, FarApproach>>)
          [] shape = "two_rev" -> base(<<FarApproach, NearApproach>>)
          [] shape = "no_name" -> Drop(base(<<NearApproach>>), "name")
          [] shape = "no_cad" ->
                Drop(base(<<NearApproach>>), "close_approach_data")
          [] shape = "no_miss" ->
                base(<<Drop(NearApproach, "miss_distance"), FarApproach>>)
          [] shape = "none_no_name" -> Drop(base(<<>>), "name")
          [] shape = "rock" ->
                Asteroid(i, 1, 2, 6, TRUE, <<Approach(1, 5, 4)>>)
          [] shape = "big" ->
                Asteroid(i, 2, 8, 16, TRUE, <<Approach(1, 0, 9)>>)
          [] shape = "safe" ->
                Asteroid(i, 1, 8, 16, FALSE, <<Approach(2, 25, 4)>>)

\* A response: the objects, the first `split` of them under the first date
\* and the rest under the second.
Response(objects, split) ==
    [element_count |-> Len(objects),
     near_earth_objects |->
        << [date |-> 1, asteroids |-> SubSeq(objects, 1, split)],
           [date |-> 2, asteroids |-> SubSeq(objects, split + 1, Len(objects))] >>]

ShapedResponses(shapes, most) ==
    UNION { { Response([i \in 1..n |-> Shaped(i, sh[i])], split) :
                sh \in [1..n -> shapes], split \in 0..n } : n \in 0..most }

InitNorm ==
    /\ Idle
    /\ input \in ShapedResponses(Shapes, MaxObjects)
    /\ result = NotRun

\* The results section flattens the stored response.
Normalize ==
    /\ result = NotRun
    /\ result' = [stage |-> "normalize", loop |-> normalize(input)]
    /\ UNCHANGED <<environ, session_state, widgets, out, input>>

NextNorm == Normalize

SpecNorm == InitNorm /\ [][NextNorm]_vars

\* =====================================================================
\* The DataFrame and the summary statistics (app.py 69-80)
\* =====================================================================
\* df = pd.DataFrame(all_asteroids); df['avg_diameter_km'] = (min + max) / 2.
\* A frame built from an empty list has no columns, and the subscript
\* df['diameter_min_km'] raises KeyError.  The diameters of the model are
\* even numbers of units, so the halving is exact.
data_frame(all_asteroids) ==
    IF all_asteroids = <<>>
    THEN [raised |-> KeyError, df |-> <<>>]
    ELSE [raised |-> None,
          df |-> [i \in 1..Len(all_asteroids) |->
                    [k \in DOMAIN all_asteroids[i] \cup {"avg_diameter_km"} |->
                        IF k = "avg_diameter_km"
                        THEN (all_asteroids[i].diameter_min_km
                              + all_asteroids[i].diameter_max_km) \div 2
                        ELSE all_asteroids[i][k]]]]

RECURSIVE column_sum(_, _)
column_sum(df, column) ==
    IF df = <<>> THEN 0 ELSE Head(df)[column] + column_sum(Tail(df), column)

count_hazardous(df) == Cardinality({i \in 1..Len(df) : df[i].is_hazardous})

\* The three metrics: len(df), is_hazardous.sum() with its percentage
\* hazardous_count / len(df) * 100, and avg_diameter_km.mean().
summary_statistics(df) ==
    LET hazardous_count == count_hazardous(df)
        pct == truediv(Int2F(hazardous_count), Int2F(Len(df)))
    IN  [raised |-> pct.raised,
         total |-> Len(df),
         hazardous_count |-> hazardous_count,
         hazardous_pct |-> FMul(pct.value, Int2F(100)),
         avg_size |-> Rat(column_sum(df, "avg_diameter_km"), Len(df))]

NoSummary == [shown |-> FALSE]

\* =====================================================================
\* Filters, sort and details (app.py 108-168)
\* =====================================================================
SortKeys ==
    {"close_approach_date", "name", "avg_diameter_km", "miss_distance_km",
     "relative_velocity_kph"}

RECURSIVE column_max(_, _)
column_max(df, column) ==
    IF Len(df) = 1 THEN df[1][column]
    ELSE LET rest == column_max(Tail(df), column)
         IN  IF df[1][column] > rest THEN df[1][column] ELSE rest

\* filtered_df: the hazardous-only filter, then the minimum size filter.
filter_rows(df, show_hazardous, size_threshold) ==
    LET hazardous == IF show_hazardous
                     THEN SelectSeq(df, LAMBDA row : row.is_hazardous = TRUE)
                     ELSE df
    IN  SelectSeq(hazardous, LAMBDA row : row.avg_diameter_km >= size_threshold)

\* filtered_df.sort_values(by=sort_by, ascending=ascending).  The call names
\* no kind, so pandas sorts with numpy's quicksort, which is not stable: the
\* rows come out ordered by the key, rows of equal key in an order that
\* depends on the numpy build.  Every such order is an outcome.
sort_values(df, by, ascending) ==
    LET n == Len(df)
        ordered(p) ==
            \A i, j \in 1..n :
                i < j => IF ascending THEN df[p[i]][by] <= df[p[j]][by]
                         ELSE df[p[i]][by] >= df[p[j]][by]
    IN  { [i \in 1..n |-> df[p[i]]] :
            p \in { q \in [1..n -> 1..n] :
                      (\A i, j \in 1..n : q[i] = q[j] => i = j) /\ ordered(q) } }

column(df, name) == [i \in 1..Len(df) |-> df[i][name]]

NoName == 0
NoDetails == [shown |-> FALSE]

\* st.selectbox over filtered_df['name'].tolist(): nothing for an empty list;
\* the user's choice while the same list is offered again; the first option
\* of a list that is new.
selectbox(options, previous_options, chosen) ==
    IF options = <<>> THEN NoName
    ELSE IF options = previous_options
            /\ \E i \in 1..Len(options) : options[i] = chosen
    THEN chosen
    ELSE options[1]

\* filtered_df[filtered_df['name'] == selected_asteroid].iloc[0]
first_named(df, name) ==
    df[CHOOSE i \in 1..Len(df) :
         df[i].name = name /\ \A j \in 1..(i - 1) : df[j].name # name]

\* The details section of the selected asteroid, its score included.
details_section(filtered_df, selected_asteroid) ==
    IF selected_asteroid = NoName THEN NoDetails
    ELSE LET asteroid_details == first_named(filtered_df, selected_asteroid)
         IN  [shown |-> TRUE, row |-> asteroid_details,
              score |-> score_section(asteroid_details)]

\* The results section when an exception ends the execution before the
\* summary: only the "Found ..." message is on the page.
AfterFound(element_count, all_asteroids, raised) ==
    [found |-> TRUE, element_count |-> element_count, raised |-> raised,
     all_asteroids |-> all_asteroids, summary |-> NoSummary, filters |-> FALSE,
     slider_max |-> 0, size_threshold |-> 0, filtered_df |-> <<>>,
     options |-> <<>>, selected_asteroid |-> NoName, details |-> NoDetails]

summarised_mutant(df, filtered_df) == summary_statistics(filtered_df)

\* The frame the summary statistics are computed over: df, as built from
\* all_asteroids, before any filter.
summarised(df, filtered_df) == summary_statistics(df)

\* The results section (lines 43-168).  `page` is what the previous execution
\* showed: a widget keeps its value only while it is shown again with the
\* same parameters.  The set holds one page per outcome of the sort.
results_section(data, w, page) ==
    LET loop == normalize(data)
        frame == data_frame(loop.all_asteroids)
    IN  IF loop.raised # None
        THEN {AfterFound(data.element_count, loop.all_asteroids, loop.raised)}
        ELSE IF frame.raised # None
        THEN {AfterFound(data.element_count, loop.all_asteroids, frame.raised)}
        ELSE
        LET df == frame.df
            slider_max == column_max(df, "avg_diameter_km")
            size_threshold ==
                IF page.filters /\ page.slider_max = slider_max
                THEN w.size_threshold ELSE 0
            filtered_df == filter_rows(df, w.show_hazardous, size_threshold)
            summary == summarised(df, filtered_df)
        IN  { LET options == column(sorted, "name")
                  selected_asteroid ==
                      selectbox(options,
                                IF page.filters THEN page.options ELSE <<>>,
                                w.selected_asteroid)
                  details == details_section(sorted, selected_asteroid)
              IN  [found |-> TRUE, element_count |-> data.element_count,
                   raised |-> IF details.shown THEN details.score.raised
                              ELSE None,
                   all_asteroids |-> loop.all_asteroids,
                   summary |-> [shown |-> TRUE] @@ summary,
                   filters |-> TRUE, slider_max |-> slider_max,
                   size_threshold |-> size_threshold,
                   filtered_df |-> sorted, options |-> options,
                   selected_asteroid |-> selected_asteroid,
                   details |-> details]
            : sorted \in sort_values(filtered_df, w.sort_by, w.ascending) }

NoResults ==
    [found |-> FALSE, element_count |-> 0, raised |-> None,
     all_asteroids |-> <<>>, summary |-> NoSummary, filters |-> FALSE,
     slider_max |-> 0, size_threshold |-> 0, filtered_df |-> <<>>,
     options |-> <<>>, selected_asteroid |-> NoName, details |-> NoDetails]

\* =====================================================================
\* fetch.py and the search button (app.py 32-40)
\* =====================================================================
NoData == [none |-> TRUE]
RequestException == [exception |-> TRUE]

\* fetch_asteroid_data: without NASA_API_KEY, st.error and st.stop() (the
\* execution ends there); else one requests.get, whose RequestException is
\* shown with st.error and turned into None.
fetch_asteroid_data(api_key, upstream) ==
    IF ~api_key
    THEN [stopped |-> TRUE, requests |-> 0, errors |-> {"no_key"},
          data |-> NoData]
    ELSE IF upstream = RequestException
    THEN [stopped |-> FALSE, requests |-> 1, errors |-> {"api"},
          data |-> NoData]
    ELSE [stopped |-> FALSE, requests |-> 1, errors |-> {}, data |-> upstream]

\* if st.sidebar.button(...): data = fetch(...); if data: store it and set
\* searched, else st.error.  Nothing else writes st.session_state.
search_button(pressed, api_key, upstream, state) ==
    IF ~pressed
    THEN [stopped |-> FALSE, requests |-> 0, errors |-> {}, failed |-> FALSE,
          state |-> state]
    ELSE LET fetched == fetch_asteroid_data(api_key, upstream)
         IN  IF fetched.stopped
             THEN [stopped |-> TRUE, requests |-> fetched.requests,
                   errors |-> fetched.errors, failed |-> TRUE, state |-> state]
             ELSE IF fetched.data # NoData
             THEN [stopped |-> FALSE, requests |-> fetched.requests,
                   errors |-> fetched.errors, failed |-> FALSE,
                   state |-> [searched |-> TRUE,
                              asteroid_data |-> fetched.data]]
             ELSE [stopped |-> FALSE, requests |-> fetched.requests,
                   errors |-> fetched.errors \cup {"failed"},
                   failed |-> TRUE, state |-> state]

\* =====================================================================
\* Spec: a session.  Every action is one execution of app.py.
\* =====================================================================
DefaultWidgets ==
    [start_date |-> 0, end_date |-> MAX_SPAN_DAYS, show_hazardous |-> FALSE,
     size_threshold |-> 0, sort_by |-> "close_approach_date",
     ascending |-> TRUE, selected_asteroid |-> NoName]

SessionShapes == {"rock", "big", "safe"}

SessionResponses ==
    UNION { { Response([i \in 1..n |-> Shaped(i, sh[i])], n) :
                sh \in [1..n -> SessionShapes] } : n \in 0..MaxSession }

Page(pressed, window, search, results) ==
    [pressed |-> pressed, warning |-> window.warning,
     end_date |-> window.end_date, stopped |-> search.stopped,
     requests |-> search.requests, errors |-> search.errors,
     failed |-> search.failed] @@ results

\* The widget values the next execution starts from: a page widget that was
\* not shown loses its value.
Kept(w, results) ==
    IF results.filters
    THEN [w EXCEPT !.size_threshold = results.size_threshold,
                   !.selected_asteroid = results.selected_asteroid]
    ELSE [DefaultWidgets EXCEPT !.start_date = w.start_date,
                                !.end_date = w.end_date]

\* One execution of app.py with the widget values w.
Script(w, pressed, upstream) ==
    LET window == validate_dates(w.start_date, w.end_date)
        search == search_button(pressed, environ, upstream, session_state)
    IN  /\ session_state' = search.state
        /\ \E results \in
               IF search.stopped \/ ~search.state.searched
               THEN {NoResults}
               ELSE results_section(search.state.asteroid_data, w, out) :
             /\ out' = Page(pressed, window, search, results)
             /\ widgets' = Kept(w, results)
        /\ UNCHANGED <<environ, input, result>>

Init ==
    /\ environ \in BOOLEAN
    /\ session_state = [searched |-> FALSE, asteroid_data |-> NoData]
    /\ widgets = DefaultWidgets
    /\ out = Page(FALSE,
                  validate_dates(DefaultWidgets.start_date,
                                 DefaultWidgets.end_date),
                  search_button(FALSE, environ, NoData, session_state),
                  NoResults)
    /\ input = None
    /\ result = NotRun

\* The session moves the end date between the default, 7 days after the
\* start, and the day after it.
ChangeDates ==
    \E end_date \in {MAX_SPAN_DAYS, MAX_SPAN_DAYS + 1} :
        /\ end_date # widgets.end_date
        /\ Script([widgets EXCEPT !.end_date = end_date], FALSE, NoData)

PressSearch ==
    \E upstream \in SessionResponses \cup {RequestException} :
        Script(widgets, TRUE, upstream)

ToggleHazardous ==
    /\ out.filters
    /\ Script([widgets EXCEPT !.show_hazardous = ~@], FALSE, NoData)

\* The slider runs from 0 to the largest average diameter; the model moves
\* it to 0 or to the average diameter of a row.
MoveSlider ==
    /\ out.filters
    /\ \E size_threshold \in
           {0} \cup {out.filtered_df[i].avg_diameter_km :
                       i \in 1..Len(out.filtered_df)} \cup {out.slider_max} :
        Script([widgets EXCEPT !.size_threshold = size_threshold], FALSE, NoData)

ChooseSort ==
    /\ out.filters
    /\ \E sort_by \in SortKeys \ {widgets.sort_by} :
        Script([widgets EXCEPT !.sort_by = sort_by], FALSE, NoData)

ChooseOrder ==
    /\ out.filters
    /\ Script([widgets EXCEPT !.ascending = ~@], FALSE, NoData)

SelectAsteroid ==
    /\ out.filters
    /\ \E i \in 1..Len(out.options) :
        Script([widgets EXCEPT !.selected_asteroid = out.options[i]],
               FALSE, NoData)

Next ==
    \/ ChangeDates
    \/ PressSearch
    \/ ToggleHazardous
    \/ MoveSlider
    \/ ChooseSort
    \/ ChooseOrder
    \/ SelectAsteroid

Spec == Init /\ [][Next]_vars

\* =====================================================================
\* SpecSort: sort_values applied to a filtered frame.
\* =====================================================================
\* Row i of the frame has id i (its place in the input) and the key value
\* keys[i] in every sortable column.
KeyedFrame(keys) ==
    [i \in 1..Len(keys) |->
        [k \in SortKeys \cup {"id"} |-> IF k = "id" THEN i ELSE keys[i]]]

SortInputs ==
    UNION { [filtered_df : {KeyedFrame(keys) : keys \in [1..n -> 1..MaxKey]},
             sort_by : SortKeys, ascending : BOOLEAN] : n \in 0..MaxRows }

InitSort ==
    /\ Idle
    /\ input \in SortInputs
    /\ result = NotRun

SortFrame ==
    /\ result = NotRun
    /\ \E sorted \in sort_values(input.filtered_df, input.sort_by,
                                 input.ascending) :
        result' = [stage |-> "sort", filtered_df |-> sorted]
    /\ UNCHANGED <<environ, session_state, widgets, out, input>>

NextSort == SortFrame

SpecSort == InitSort /\ [][NextSort]_vars

\* =====================================================================
\* Properties
\* =====================================================================
Hundred == Int2F(100)
FLeq(a, b) == ~FLess(b, a)

\* C1: every scored row gets a hazard score in [0, 100], computed without an
\* exception, and a row that is not hazardous scores exactly 0.
C1_ScoreBounds ==
    result.stage = "score" =>
        /\ result.details.raised = None
        /\ FLeq(Int2F(0), result.details.hazard_level)
        /\ FLeq(result.details.hazard_level, Hundred)
        /\ ~input.is_hazardous => FEq(result.details.hazard_level, Int2F(0))

\* A hazardous row larger than 0.5 km and nearer than 1 000 000 km was
\* scored: both factors are clamped and the score is the upper bound.
C1_Witness ==
    /\ result.stage = "score"
    /\ input.is_hazardous
    /\ input.avg_diameter_km > HALF_KM
    /\ input.miss_distance_km < MILLION_KM
    /\ FEq(result.details.hazard_level, Hundred)

\* C2: a window of more than 7 days is cut to start + 7 days with the
\* warning; a window of 7 days or less is left as it is, without warning.
C2_WindowClamp ==
    result.stage = "dates" =>
        IF input.end_date - input.start_date > 7
        THEN /\ result.window.warning
             /\ result.window.end_date = input.start_date + 7
        ELSE /\ ~result.window.warning
             /\ result.window.end_date = input.end_date

\* A 10-day window was validated and came out as 7 days, with the warning.
C2_Witness ==
    /\ result.stage = "dates"
    /\ input.end_date = input.start_date + 10
    /\ result.window.end_date = input.start_date + 7
    /\ result.window.warning

\* The objects of a response, date after date.
RECURSIVE raw_objects(_)
raw_objects(neo_data) ==
    IF neo_data = <<>> THEN <<>>
    ELSE Head(neo_data).asteroids \o raw_objects(Tail(neo_data))

HasApproach(asteroid) ==
    /\ "close_approach_data" \in DOMAIN asteroid
    /\ asteroid.close_approach_data # <<>>

WellFormed(asteroid) ==
    /\ AsteroidKeys \cup {"close_approach_data"} \subseteq DOMAIN asteroid
    /\ asteroid.close_approach_data # <<>>
         => ApproachKeys \subseteq DOMAIN asteroid.close_approach_data[1]

\* C3: the loop never produces more records than the response has objects;
\* when it runs to its end, the records are, in order, one per object with a
\* close approach, each built from the object's first approach entry, so
\* their number equals the object count exactly when no object has an empty
\* approach list.
C3_OneRecordPerApproachingObject ==
    result.stage = "normalize" =>
        LET objects == raw_objects(input.near_earth_objects)
            all_asteroids == result.loop.all_asteroids
        IN  /\ Len(all_asteroids) <= Len(objects)
            /\ result.loop.raised = None =>
                 LET kept == SelectSeq(objects, HasApproach)
                 IN  /\ Len(all_asteroids) = Len(kept)
                     /\ Len(all_asteroids) = Len(objects)
                          <=> \A i \in 1..Len(objects) : HasApproach(objects[i])
                     /\ \A i \in 1..Len(all_asteroids) :
                          LET first == kept[i].close_approach_data[1]
                          IN  /\ all_asteroids[i].id = kept[i].id
                              /\ all_asteroids[i].close_approach_date
                                   = first.close_approach_date
                              /\ all_asteroids[i].miss_distance_km
                                   = first.miss_distance
                              /\ all_asteroids[i].relative_velocity_kph
                                   = first.relative_velocity

\* A response with an object without approaches and an object with two of
\* them was flattened: fewer records than objects.
C3_Witness ==
    /\ result.stage = "normalize"
    /\ result.loop.raised = None
    /\ LET objects == raw_objects(input.near_earth_objects)
       IN  /\ \E i \in 1..Len(objects) : objects[i].close_approach_data = <<>>
           /\ \E i \in 1..Len(objects) : Len(objects[i].close_approach_data) = 2
           /\ Len(result.loop.all_asteroids) >= 1
           /\ Len(result.loop.all_asteroids) < Len(objects)

\* C4: the Context shown follows from the score alone: above 70 the warning
\* (high), above 40 and up to 70 the info (medium), up to 40 the success
\* (low); a row that is not hazardous gets low; the hazardous row of 0.2 km
\* at 500 000 km scores 58 and gets medium.
C4_TierOfScore ==
    result.stage = "score" =>
        LET hazard_level == result.details.hazard_level
            shown == result.details.context
        IN  /\ FLess(Int2F(70), hazard_level) => shown = "warning"
            /\ FLess(Int2F(40), hazard_level) /\ FLeq(hazard_level, Int2F(70))
                 => shown = "info"
            /\ FLeq(hazard_level, Int2F(40)) => shown = "success"
            /\ ~input.is_hazardous => shown = "success"
            /\ (input.is_hazardous /\ input.avg_diameter_km = 4
                /\ input.miss_distance_km = 5)
                 => FEq(hazard_level, Int2F(58)) /\ shown = "info"

\* The hazardous row of 0.2 km at 500 000 km was scored 58, medium.
C4_Witness ==
    /\ result.stage = "score"
    /\ input.is_hazardous
    /\ input.avg_diameter_km = 4
    /\ input.miss_distance_km = 5
    /\ FEq(result.details.hazard_level, Int2F(58))
    /\ result.details.context = "info"

\* C5 (as claimed): an execution whose fetch returned no data shows the error
\* and no results section, whatever was fetched before; a Search press
\* sends one request at most, and exactly one when the API key is set.
C5_FailedFetchShowsNoResults ==
    /\ out.pressed /\ out.failed => out.errors # {} /\ ~out.found
    /\ out.requests <= 1
    /\ out.pressed /\ environ => out.requests = 1

\* C6 (as claimed): a results section over zero records ends without an
\* exception, the undefined aggregate marked as such.
C6_EmptyAggregateIsGuarded ==
    out.found /\ out.all_asteroids = <<>> =>
        out.raised = None /\ out.summary.shown

\* C7 (as claimed): the summary is computed over the filtered rows.
C7_AggregateOverActiveSet ==
    out.summary.shown =>
        /\ out.summary.total = Len(out.filtered_df)
        /\ out.summary.hazardous_count = count_hazardous(out.filtered_df)

\* C7 (amended): the summary is computed over all the flat records of the
\* stored response, whatever the hazardous-only and minimum-size filters
\* leave: the total, the hazardous count, its percentage and the mean of the
\* average diameters.
C7_AggregateOverAllRecords ==
    out.summary.shown =>
        LET n == Len(out.all_asteroids)
            hazardous ==
                Cardinality({i \in 1..n : out.all_asteroids[i].is_hazardous})
        IN  /\ out.summary.total = n
            /\ out.summary.hazardous_count = hazardous
            /\ FEq(out.summary.hazardous_pct, Rat(100 * hazardous, n))
            /\ FEq(out.summary.avg_size,
                   Rat(column_sum(out.all_asteroids, "diameter_min_km")
                       + column_sum(out.all_asteroids, "diameter_max_km"),
                       2 * n))

\* The summary is on a page whose filters removed some of the rows.
C7_Witness ==
    /\ out.summary.shown
    /\ Len(out.filtered_df) < Len(out.all_asteroids)
    /\ out.summary.total = Len(out.all_asteroids)

\* C8 (as claimed): rows of equal sort key keep their input order.
C8_SortIsStable ==
    result.stage = "sort" =>
        \A i, j \in 1..Len(result.filtered_df) :
            (/\ i < j
             /\ result.filtered_df[i][input.sort_by]
                  = result.filtered_df[j][input.sort_by])
                => result.filtered_df[i].id < result.filtered_df[j].id

\* C9: a hazardous row with miss distance 0 is scored without an exception:
\* the distance factor counts as 1, so the score is 70 * size_factor + 30,
\* between 30 and 100.
C9_ZeroMissDistance ==
    (/\ result.stage = "score"
     /\ input.is_hazardous
     /\ input.miss_distance_km = 0)
        => /\ result.details.raised = None
           /\ FLeq(Int2F(30), result.details.hazard_level)
           /\ FLeq(result.details.hazard_level, Hundred)
           /\ FEq(result.details.hazard_level,
                  FAdd(FMul(Int2F(70), size_factor(input)), Int2F(30)))

\* A hazardous row of 0.2 km with miss distance 0 was scored 58.
C9_Witness ==
    /\ result.stage = "score"
    /\ input.is_hazardous
    /\ input.miss_distance_km = 0
    /\ input.avg_diameter_km = 4
    /\ result.details.raised = None
    /\ FEq(result.details.hazard_level, Int2F(58))

\* C10 (as claimed): the loop skips an object that lacks a required field
\* and goes on: it raises nothing and makes one record per well-formed
\* object with a close approach.
C10_MalformedObjectSkipped ==
    result.stage = "normalize" =>
        LET objects == raw_objects(input.near_earth_objects)
        IN  /\ result.loop.raised = None
            /\ Len(result.loop.all_asteroids)
                 = Cardinality({i \in 1..Len(objects) :
                                  WellFormed(objects[i])
                                  /\ HasApproach(objects[i])})

====
